---- MODULE Spec2Model ----
(***************************************************************************)
(* Job application tracker: one CSV table (applications.csv) read and      *)
(* rewritten whole by two front ends, a terminal menu (job_tracker.py)     *)
(* and a Streamlit script (job_tracker_app.py).                            *)
(*                                                                         *)
(* The state is the CSV file (text cells) and the clock.  Every handler    *)
(* is one action: read_csv, the in-memory DataFrame computation, to_csv.   *)
(* `before` and `last` record the file before the last handler ran and     *)
(* what that handler was given and produced; the program does not keep     *)
(* them, the properties read them.                                         *)
(*                                                                         *)
(* Text is modelled by TLA+ strings taken from small sets; the string      *)
(* functions of the program (strip, lower, int, strptime, str.contains,    *)
(* str(date)) are tables over those sets.  Free text is drawn from         *)
(* non-numeric text, so read_csv's numeric dtype inference (a column of    *)
(* digits only is loaded as numbers) is outside the model.                 *)
(***************************************************************************)
EXTENDS Integers, Sequences, FiniteSets, TLC

VARIABLES file, today, before, last

vars == <<file, today, before, last>>

(* ---------------------------------------------------------------- bounds *)

\* Largest number of records the table is grown to.
MaxRows == 3

(* ---------------------------------------------------------------- clock *)

\* The days the clock runs over (day n is 2024-01-0n).
Days == 2..3

(* ------------------------------------------------------------- constants *)

COLUMNS ==
  << "Date", "Company", "Role", "Application Method", "Contact", "Status",
     "Follow-up Date", "Notes" >>

\* Options of the web form's status selectbox.
StatusOptions ==
  { "Applied", "Interview", "Tech Assessment", "Case Study", "Offer", "Rejected" }

\* Options of the web view's status filter.
StatusFilterOptions == { "All", "Applied", "Interview", "Offer", "Rejected" }

\* Strings pandas.read_csv loads as a missing value (keep_default_na=True).
NA_VALUES ==
  { "", "#N/A", "#N/A N/A", "#NA", "-1.#IND", "-1.#QNAN", "-NaN", "-nan",
    "1.#IND", "1.#QNAN", "<NA>", "N/A", "NA", "NULL", "NaN", "None", "n/a",
    "nan", "null" }

(* ------------------------------------------------------------ text tables *)

\* str(date): day n of January 2024 as YYYY-MM-DD.
DateText ==
  << "2024-01-01", "2024-01-02", "2024-01-03", "2024-01-04", "2024-01-05",
     "2024-01-06" >>

\* The same days without zero padding; strptime("%Y-%m-%d") accepts them too.
UnpaddedDateText ==
  << "2024-1-1", "2024-1-2", "2024-1-3", "2024-1-4", "2024-1-5", "2024-1-6" >>

\* Decimal numerals of 0..9.
NatText == << "0", "1", "2", "3", "4", "5", "6", "7", "8", "9" >>

\* str.strip() on the strings used as input.
Strip(s) ==
  CASE s = " Acme " -> "Acme"
    [] s = " 2024-01-02 " -> "2024-01-02"
    [] s = " Y" -> "Y"
    [] OTHER -> s

\* str.lower() on the confirmation answers.
Lower(s) ==
  CASE s = "Y" -> "y"
    [] s = "N" -> "n"
    [] OTHER -> s

\* int(s): the value, or ValueError.
IntOf(s) ==
  IF \E k \in 1..Len(NatText) : NatText[k] = s
  THEN [ok |-> TRUE, n |-> (CHOOSE k \in 1..Len(NatText) : NatText[k] = s) - 1]
  ELSE [ok |-> FALSE, n |-> 0]

\* datetime.strptime(s, "%Y-%m-%d").date(): the day, or ValueError.
Strptime(s) ==
  IF \E d \in 1..Len(DateText) : DateText[d] = s \/ UnpaddedDateText[d] = s
  THEN [ok |-> TRUE,
        d |-> CHOOSE d \in 1..Len(DateText) :
                DateText[d] = s \/ UnpaddedDateText[d] = s]
  ELSE [ok |-> FALSE, d |-> 0]

(* ---------------------------------------------------------- cell values *)

\* Values held by a DataFrame cell.
Str(s) == [t |-> "str", s |-> s, d |-> 0]
NaN == [t |-> "nan", s |-> "", d |-> 0]
DateV(d) == [t |-> "date", s |-> "", d |-> d]
Timestamp(d) == [t |-> "ts", s |-> "", d |-> d]
NaT == [t |-> "nat", s |-> "", d |-> 0]

\* read_csv on one cell: NA strings become NaN, anything else stays text.
ReadCsvCell(txt) == IF txt \in NA_VALUES THEN NaN ELSE Str(txt)

\* to_csv on one cell: NaN is written as the empty field, a date as str(date).
ToCsvCell(v) ==
  CASE v.t = "nan" -> ""
    [] v.t = "nat" -> ""
    [] v.t = "str" -> v.s
    [] v.t = "date" -> DateText[v.d]
    [] v.t = "ts" -> DateText[v.d]

(* ------------------------------------------------------------ data frames *)

\* A row maps the eight columns to cells.  The fields stand for the columns
\* "Date", "Company", "Role", "Application Method", "Contact", "Status",
\* "Follow-up Date", "Notes", in this order.
ReadCsvRow(r) ==
  [Date |-> ReadCsvCell(r.Date), Company |-> ReadCsvCell(r.Company),
   Role |-> ReadCsvCell(r.Role), Method |-> ReadCsvCell(r.Method),
   Contact |-> ReadCsvCell(r.Contact), Status |-> ReadCsvCell(r.Status),
   FollowUp |-> ReadCsvCell(r.FollowUp), Notes |-> ReadCsvCell(r.Notes)]

ToCsvRow(r) ==
  [Date |-> ToCsvCell(r.Date), Company |-> ToCsvCell(r.Company),
   Role |-> ToCsvCell(r.Role), Method |-> ToCsvCell(r.Method),
   Contact |-> ToCsvCell(r.Contact), Status |-> ToCsvCell(r.Status),
   FollowUp |-> ToCsvCell(r.FollowUp), Notes |-> ToCsvCell(r.Notes)]

RECURSIVE ReadCsvRows(_)
ReadCsvRows(rows) ==
  IF rows = <<>> THEN <<>>
  ELSE <<ReadCsvRow(Head(rows))>> \o ReadCsvRows(Tail(rows))

RECURSIVE ToCsvRows(_)
ToCsvRows(rows) ==
  IF rows = <<>> THEN <<>>
  ELSE <<ToCsvRow(Head(rows))>> \o ToCsvRows(Tail(rows))

\* range(n) as row labels: 0, 1, ..., n-1.
RECURSIVE RangeIndex(_)
RangeIndex(n) == IF n = 0 THEN <<>> ELSE Append(RangeIndex(n - 1), n - 1)

\* A DataFrame: row labels and, position by position, the rows.
EmptyFrame == [index |-> <<>>, rows |-> <<>>]

\* The file before the program ever ran.
NoFile == [exists |-> FALSE, header |-> <<>>, rows |-> <<>>]

\* pd.DataFrame(columns=COLUMNS).to_csv(FILE, index=False)
HeaderOnlyFile == [exists |-> TRUE, header |-> COLUMNS, rows |-> <<>>]

\* pd.read_csv(FILE): labels 0..n-1, each cell parsed.
ReadCsv(f) ==
  [index |-> RangeIndex(Len(f.rows)), rows |-> ReadCsvRows(f.rows)]

\* df.to_csv(FILE, index=False): the header and one line per row, no labels.
ToCsv(df) ==
  [exists |-> TRUE, header |-> COLUMNS, rows |-> ToCsvRows(df.rows)]

\* df.empty
Empty(df) == Len(df.rows) = 0

\* pd.concat([df, pd.DataFrame([new_row])], ignore_index=True)
Concat(df, new_row) ==
  [index |-> RangeIndex(Len(df.rows) + 1), rows |-> Append(df.rows, new_row)]

\* The elements of a sequence at the positions in `keep`, from position i on.
RECURSIVE SelectAt(_, _, _)
SelectAt(seq, keep, i) ==
  IF i > Len(seq) THEN <<>>
  ELSE (IF i \in keep THEN <<seq[i]>> ELSE <<>>) \o SelectAt(seq, keep, i + 1)

\* df[mask]: the rows whose position is in `keep`, labels kept.
Mask(df, keep) ==
  [index |-> SelectAt(df.index, keep, 1), rows |-> SelectAt(df.rows, keep, 1)]

\* Drop with the display number taken for the label: the row after is dropped.
DropDisplayNumber(df, label) ==
  Mask(df, { i \in 1..Len(df.rows) : df.index[i] # label + 1 })

\* df.drop(label): the frame without the row carrying that label.
Drop(df, label) ==
  Mask(df, { i \in 1..Len(df.rows) : df.index[i] # label })

\* df.reset_index(drop=True)
ResetIndex(df) == [index |-> RangeIndex(Len(df.rows)), rows |-> df.rows]

(* ---------------------------------------------------------------- state *)

\* No handler has run yet.
NoOp == [op |-> "none", outcome |-> "none", args |-> [app |-> "none"], out |-> <<>>]

Init ==
  /\ file = NoFile
  /\ today = 2
  /\ before = NoFile
  /\ last = NoOp

\* Initialization without the existence test: the table is always rewritten.
InitializeAlways(f) == HeaderOnlyFile

\* Module-level initialization of both scripts: create the table if missing.
Initialize(f) == IF ~f.exists THEN HeaderOnlyFile ELSE f

\* Starting the terminal program runs its module-level initialization.
TerminalStart ==
  /\ file' = Initialize(file)
  /\ before' = file
  /\ last' = [op |-> "initialize",
              outcome |-> IF file.exists THEN "exists" ELSE "created",
              args |-> [app |-> "terminal"], out |-> <<>>]
  /\ UNCHANGED today

(* ------------------------------------------------------------- inputs *)

\* What the user types at the terminal prompts.  Two families of add
\* inputs keep the table small: free text varies in the first (the dates are
\* fixed), the dates vary in the second (the text is fixed).
TextDateInputs == { "2024-01-02" }
TextCompanyInputs == { " Acme " }
TextContactInputs == { "", "N/A" }
TextStatusInputs == { "Applied", "Interview", "" }
TextFollowUpInputs == { "" }

DateInputs == { "", " 2024-01-02 ", "2024-1-2", "01/02/2024" }
DateCompanyInputs == { "Acme" }
DateStatusInputs == { "Applied" }
DateContactInputs == { "" }
FollowUpInputs == { "", "2024-01-02", "2024-01-03", "next week" }

RoleInputs == { "Dev" }
MethodInputs == { "email" }
NotesInputs == { "" }
IndexInputs == { NatText[k + 1] : k \in 0..(MaxRows + 1) } \cup { "abc" }
ConfirmInputs == { "y", " Y", "n" }

\* What the web form hands over: dates from a date picker (None when the
\* follow-up picker is left empty), text as typed, a status of the selectbox.
None == [t |-> "none", s |-> "", d |-> 0]
WebDateInputs == { DateV(2) }
WebCompanyInputs == { "Acme" }
WebTextStatusInputs == StatusOptions \cap { "Applied" }
WebTextFollowUpInputs == { None }
WebDateStatusInputs == StatusOptions \cap { "Applied" }
WebFollowUpInputs == { None, DateV(3) }
WebCompanyFilters == { "", "acme" }
WebStatusFilters == StatusFilterOptions \cap { "All", "Applied" }

\* The dict of one new record.
NewRow(date, company, role, method, contact, status, follow_up, notes) ==
  [Date |-> date, Company |-> company, Role |-> role, Method |-> method,
   Contact |-> contact, Status |-> status, FollowUp |-> follow_up,
   Notes |-> notes]

(* ------------------------------------------------------------------ add *)

\* The application date typed at the prompt: blank or unparseable is today.
DateApplied(raw, now) ==
  LET s == Strip(raw)
  IN IF s = "" THEN DateV(now)
     ELSE IF Strptime(s).ok THEN DateV(Strptime(s).d) ELSE DateV(now)

\* The follow-up date with the failed parse not blanked: the text is kept.
FollowUpKeepsText(raw) ==
  LET s == Strip(raw)
  IN IF s # "" /\ Strptime(s).ok THEN DateV(Strptime(s).d) ELSE Str(s)

\* The follow-up date typed at the prompt: blank or unparseable stays blank.
FollowUp(raw) ==
  LET s == Strip(raw)
  IN IF s # ""
     THEN IF Strptime(s).ok THEN DateV(Strptime(s).d) ELSE Str("")
     ELSE Str(s)

\* add_application of the terminal program, the answers drawn from the sets.
AddApplication(Dates, Companies, Contacts, Statuses, FollowUps) ==
  /\ file.exists
  /\ Len(file.rows) < MaxRows
  /\ \E rd \in Dates, rc \in Companies, rr \in RoleInputs,
        rm \in MethodInputs, rp \in Contacts, rs \in Statuses,
        rf \in FollowUps, rn \in NotesInputs :
       LET new_row == NewRow(DateApplied(rd, today), Str(Strip(rc)),
                             Str(Strip(rr)), Str(Strip(rm)), Str(Strip(rp)),
                             Str(Strip(rs)), FollowUp(rf), Str(Strip(rn)))
           df == Concat(ReadCsv(file), new_row)
       IN /\ file' = ToCsv(df)
          /\ before' = file
          /\ last' = [op |-> "add", outcome |-> "added",
                      args |-> [app |-> "terminal", date |-> rd,
                                follow_up |-> rf, today |-> today],
                      out |-> new_row]
  /\ UNCHANGED today

\* The follow-up cell of the web form: "" when the picker is empty.
WebFollowUp(follow_up) == IF follow_up.t # "none" THEN follow_up ELSE Str("")

\* add_application of the web script, submitted (the script's module-level
\* initialization runs first, as on every run of the script).
WebAddApplication(Dates, Companies, Contacts, Statuses, FollowUps) ==
  /\ Len(file.rows) < MaxRows
  /\ \E date_applied \in Dates, company \in Companies, role \in RoleInputs,
        method \in MethodInputs, contact \in Contacts,
        status \in Statuses, follow_up \in FollowUps, notes \in NotesInputs :
       LET new_row == NewRow(date_applied, Str(company), Str(role),
                             Str(method), Str(contact), Str(status),
                             WebFollowUp(follow_up), Str(notes))
           df == Concat(ReadCsv(Initialize(file)), new_row)
       IN /\ file' = ToCsv(df)
          /\ before' = file
          /\ last' = [op |-> "add", outcome |-> "added",
                      args |-> [app |-> "web", date |-> date_applied,
                                follow_up |-> follow_up, today |-> today],
                      out |-> new_row]
  /\ UNCHANGED today

(* ----------------------------------------------------------------- view *)

\* view_applications of the terminal program: every row, numbered from 1.
ViewApplications ==
  /\ file.exists
  /\ LET df == ReadCsv(file)
     IN last' = [op |-> "view",
                 outcome |-> IF Empty(df) THEN "NoApplications" ELSE "shown",
                 args |-> [app |-> "terminal"],
                 out |-> df]
  /\ before' = file
  /\ UNCHANGED <<file, today>>

(* ------------------------------------------------------------ follow-ups *)

\* pd.to_datetime(value, errors='coerce')
ToDatetime(v) ==
  IF v.t = "str" /\ \E d \in 1..Len(DateText) : DateText[d] = v.s
  THEN Timestamp(CHOOSE d \in 1..Len(DateText) : DateText[d] = v.s)
  ELSE IF v.t \in {"date", "ts"} THEN Timestamp(v.d)
  ELSE NaT

\* df['Follow-up Date'] = pd.to_datetime(df['Follow-up Date'], errors='coerce')
RECURSIVE CoerceRows(_)
CoerceRows(rows) ==
  IF rows = <<>> THEN <<>>
  ELSE <<[Head(rows) EXCEPT !.FollowUp = ToDatetime(Head(rows).FollowUp)]>>
         \o CoerceRows(Tail(rows))

CoerceFollowUp(df) == [index |-> df.index, rows |-> CoerceRows(df.rows)]

\* The comparison made strict: a follow-up of today is not due.
DueBefore(v, now) == v.t = "ts" /\ v.d < now

\* value <= today on a coerced cell; a comparison with NaT is False.
DueBy(v, now) == v.t = "ts" /\ v.d <= now

\* df[df['Follow-up Date'] <= today] on the coerced frame
Pending(df, now) ==
  Mask(df, { i \in 1..Len(df.rows) : DueBy(df.rows[i].FollowUp, now) })

\* The body shared by follow_ups_pending of both front ends.
FollowUpsResult(df, now) ==
  IF Empty(df) THEN [outcome |-> "NoApplications", pending |-> EmptyFrame]
  ELSE LET pending == Pending(CoerceFollowUp(df), now)
       IN IF Empty(pending)
          THEN [outcome |-> "NoPending", pending |-> pending]
          ELSE [outcome |-> "shown", pending |-> pending]

\* follow_ups_pending that writes the pending rows back to the table.
FollowUpsPendingSaved ==
  /\ file.exists
  /\ LET r == FollowUpsResult(ReadCsv(file), today)
     IN /\ last' = [op |-> "follow_ups", outcome |-> r.outcome,
                    args |-> [app |-> "terminal", today |-> today],
                    out |-> r.pending]
        /\ file' = ToCsv(r.pending)
  /\ before' = file
  /\ UNCHANGED today

\* follow_ups_pending of the terminal program.
FollowUpsPending ==
  /\ file.exists
  /\ LET r == FollowUpsResult(ReadCsv(file), today)
     IN last' = [op |-> "follow_ups", outcome |-> r.outcome,
                 args |-> [app |-> "terminal", today |-> today],
                 out |-> r.pending]
  /\ before' = file
  /\ UNCHANGED <<file, today>>

\* follow_ups_pending of the web script.
WebFollowUpsPending ==
  /\ LET r == FollowUpsResult(ReadCsv(Initialize(file)), today)
     IN last' = [op |-> "follow_ups", outcome |-> r.outcome,
                 args |-> [app |-> "web", today |-> today],
                 out |-> r.pending]
  /\ before' = file
  /\ file' = Initialize(file)
  /\ UNCHANGED today

(* --------------------------------------------------------------- delete *)

\* The range check off by one at the upper end.
OutOfRangeOffByOne(idx, n) == idx < 0 \/ idx > n

\* idx < 0 or idx >= len(df)
OutOfRange(idx, n) == idx < 0 \/ idx >= n

\* The labels of a frame.
Labels(df) == { df.index[i] : i \in 1..Len(df.rows) }

\* The confirmation taken as given by any non-empty answer.
ConfirmedByAnyAnswer(answer) == Lower(Strip(answer)) # ""

\* confirm == 'y' after strip().lower()
Confirmed(answer) == Lower(Strip(answer)) = "y"

\* The steps of delete_application after the table was read and shown:
\* the number typed, the range check, the confirmation, the drop.
DeleteSteps(df, raw, answer) ==
  LET parsed == IntOf(Strip(raw))
      idx == parsed.n - 1
  IN IF ~parsed.ok
     THEN [outcome |-> "InvalidInput", asked |-> FALSE, idx |-> -1, df |-> df]
     ELSE IF OutOfRange(idx, Len(df.rows))
     THEN [outcome |-> "InvalidNumber", asked |-> FALSE, idx |-> idx, df |-> df]
     ELSE IF idx \notin Labels(df)
     THEN [outcome |-> "KeyError", asked |-> FALSE, idx |-> idx, df |-> df]
     ELSE IF Confirmed(answer)
     THEN [outcome |-> "deleted", asked |-> TRUE, idx |-> idx,
           df |-> ResetIndex(Drop(df, idx))]
     ELSE [outcome |-> "cancelled", asked |-> TRUE, idx |-> idx, df |-> df]

\* What delete_application leaves behind, given the frame it read and the
\* result r of its steps on the number `raw` and the answer typed.
DeleteEffect(df, r, raw, answer) ==
  IF Empty(df)
  THEN /\ file' = file
       /\ last' = [op |-> "delete", outcome |-> "NoApplications",
                   args |-> [app |-> "terminal", asked |-> FALSE,
                             index |-> "", confirm |-> ""],
                   out |-> -1]
  ELSE /\ file' = IF r.outcome = "deleted" THEN ToCsv(r.df) ELSE file
       /\ last' = [op |-> "delete", outcome |-> r.outcome,
                   args |-> [app |-> "terminal", asked |-> TRUE, index |-> raw,
                             confirm |-> IF r.asked THEN answer ELSE ""],
                   out |-> r.idx]

\* delete_application on the frame it read: the number and, once the number
\* passed the checks, the answer are typed.
DeleteFrom(df) ==
  \E raw \in IndexInputs :
    \E answer \in IF DeleteSteps(df, raw, "").asked THEN ConfirmInputs
                  ELSE { "" } :
      DeleteEffect(df, DeleteSteps(df, raw, answer), raw, answer)

\* delete_application of the terminal program.
DeleteApplication ==
  /\ file.exists
  /\ DeleteFrom(ReadCsv(file))
  /\ before' = file
  /\ UNCHANGED today

\* str.contains(pattern, case=False) on the company names in use.
Contains(s, pattern) ==
  \/ pattern = ""
  \/ <<s, pattern>> \in { <<"Acme", "acme">>, <<"Acme", "Acme">> }

\* The filters of the web view.  A blank company under a company filter
\* makes the mask hold NaN, and indexing with it raises.
Filtered(df, company_filter, status_filter) ==
  LET n == Len(df.rows)
      raises == company_filter # ""
                  /\ \E i \in 1..n : df.rows[i].Company.t = "nan"
      by_company ==
        IF company_filter # ""
        THEN { i \in 1..n : /\ df.rows[i].Company.t = "str"
                            /\ Contains(df.rows[i].Company.s, company_filter) }
        ELSE 1..n
      by_status ==
        IF status_filter # "All"
        THEN { i \in by_company : df.rows[i].Status = Str(status_filter) }
        ELSE by_company
  IN [raises |-> raises, df |-> Mask(df, by_status)]

\* What the web view leaves behind for the frame it read, the filtered frame
\* `shown` and the label `click` of the button pressed (-1: none).
WebViewEffect(df, shown, click) ==
  IF Empty(df)
  THEN /\ file' = Initialize(file)
       /\ last' = [op |-> "view", outcome |-> "NoApplications",
                   args |-> [app |-> "web"], out |-> df]
  ELSE IF shown.raises
  THEN /\ file' = Initialize(file)
       /\ last' = [op |-> "view", outcome |-> "ValueError",
                   args |-> [app |-> "web"], out |-> EmptyFrame]
  ELSE IF click \in Labels(shown.df)
  THEN /\ file' = ToCsv(Drop(df, click))
       /\ last' = [op |-> "delete", outcome |-> "deleted",
                   args |-> [app |-> "web", asked |-> TRUE,
                             index |-> NatText[click + 2], confirm |-> ""],
                   out |-> click]
  ELSE /\ file' = Initialize(file)
       /\ last' = [op |-> "view", outcome |-> "shown",
                   args |-> [app |-> "web"], out |-> shown.df]

\* The web view on the frame it read: the filters are set and at most one
\* of the delete buttons, one per shown row, is pressed.
WebViewOf(df) ==
  \E company_filter \in WebCompanyFilters, status_filter \in WebStatusFilters,
     click \in -1..(Len(df.rows) - 1) :
    WebViewEffect(df, Filtered(df, company_filter, status_filter), click)

\* view_applications of the web script.
WebViewApplications ==
  /\ WebViewOf(ReadCsv(Initialize(file)))
  /\ before' = file
  /\ UNCHANGED today

(* ---------------------------------------------------------------- stats *)

\* One more occurrence of status v in the tally (first-seen order).
Bump(tally, v) ==
  IF \E k \in 1..Len(tally) : tally[k].status = v
  THEN LET k == CHOOSE k \in 1..Len(tally) : tally[k].status = v
       IN [tally EXCEPT ![k].count = @ + 1]
  ELSE Append(tally, [status |-> v, count |-> 1])

\* The occurrences of each status; a missing status (NaN) is not counted
\* (value_counts has dropna=True).
RECURSIVE Tally(_, _)
Tally(rows, tally) ==
  IF rows = <<>> THEN tally
  ELSE Tally(Tail(rows),
             IF Head(rows).Status.t = "nan" THEN tally
             ELSE Bump(tally, Head(rows).Status.s))

\* Entry e put behind the entries that count at least as much.
RECURSIVE InsertDescending(_, _)
InsertDescending(sorted, e) ==
  IF sorted = <<>> THEN <<e>>
  ELSE IF Head(sorted).count >= e.count
  THEN <<Head(sorted)>> \o InsertDescending(Tail(sorted), e)
  ELSE <<e>> \o sorted

RECURSIVE SortDescending(_, _)
SortDescending(tally, sorted) ==
  IF tally = <<>> THEN sorted
  ELSE SortDescending(Tail(tally), InsertDescending(sorted, Head(tally)))

\* df['Status'].value_counts(): counts in descending order, equal counts in
\* the order the statuses first appear.
ValueCounts(df) == SortDescending(Tally(df.rows, <<>>), <<>>)

\* status_counts.get(status, 0)
Get(status_counts, status) ==
  IF \E k \in 1..Len(status_counts) : status_counts[k].status = status
  THEN status_counts[CHOOSE k \in 1..Len(status_counts) :
                       status_counts[k].status = status].count
  ELSE 0

\* count / total * 100 as printed with one decimal, in tenths of a percent.
Percent(count, total) == (2000 * count + total) \div (2 * total)

RECURSIVE StatsTable(_, _)
StatsTable(status_counts, total) ==
  IF status_counts = <<>> THEN <<>>
  ELSE <<[status |-> Head(status_counts).status,
          count |-> Head(status_counts).count,
          percent |-> Percent(Head(status_counts).count, total)]>>
         \o StatsTable(Tail(status_counts), total)

NoReport == <<>>

\* The report of the terminal program, from the status counts on.  With no
\* status counted the table is empty, and the conversion ratios divide by
\* total.
StatsReport(df, now) ==
  LET total == Len(df.rows)
  IN IF total = 0
     THEN [outcome |-> "ZeroDivisionError", report |-> NoReport]
     ELSE [outcome |-> "report",
           report |->
             [counts |-> StatsTable(ValueCounts(df), total),
              total |-> total,
              interview |-> Percent(Get(ValueCounts(df), "Interview"), total),
              offer |-> Percent(Get(ValueCounts(df), "Offer"), total),
              pending |-> Len(Pending(CoerceFollowUp(df), now).rows)]]

\* The statistics without the test for an empty table.
StatsOfUnguarded(df, now) == StatsReport(df, now)

\* application_stats of the terminal program on the frame it read.
StatsOf(df, now) ==
  IF Empty(df) THEN [outcome |-> "EmptyStore", report |-> NoReport]
  ELSE StatsReport(df, now)

ApplicationStats ==
  /\ file.exists
  /\ LET r == StatsOf(ReadCsv(file), today)
     IN last' = [op |-> "stats", outcome |-> r.outcome,
                 args |-> [app |-> "terminal", today |-> today],
                 out |-> r.report]
  /\ before' = file
  /\ UNCHANGED <<file, today>>

\* The report of the web script: one line per status and the total.  The
\* only divisions are in the loop over the counted statuses.
WebStatsReport(df) ==
  LET total == Len(df.rows)
  IN [outcome |-> "report",
      report |-> [counts |-> StatsTable(ValueCounts(df), total),
                  total |-> total]]

\* application_stats of the web script on the frame it read.
WebStatsOf(df) ==
  IF Empty(df) THEN [outcome |-> "EmptyStore", report |-> NoReport]
  ELSE WebStatsReport(df)

WebApplicationStats ==
  /\ LET r == WebStatsOf(ReadCsv(Initialize(file)))
     IN last' = [op |-> "stats", outcome |-> r.outcome,
                 args |-> [app |-> "web", today |-> today],
                 out |-> r.report]
  /\ before' = file
  /\ file' = Initialize(file)
  /\ UNCHANGED today

\* The Home page of the web script: only the module-level initialization.
WebHome ==
  /\ file' = Initialize(file)
  /\ before' = file
  /\ last' = [op |-> "initialize",
              outcome |-> IF file.exists THEN "exists" ELSE "created",
              args |-> [app |-> "web"], out |-> <<>>]
  /\ UNCHANGED today

\* The calendar day changes.
Tick ==
  /\ today + 1 \in Days
  /\ today' = today + 1
  /\ UNCHANGED <<file, before, last>>

(* ----------------------------------------------------------- properties *)

\* list_all: the records as a read of the table shows them, in order.
ListAll(f) == ReadCsv(f).rows

\* The number a numeral of NatText denotes, -1 for any other text.
NumeralValue(txt) ==
  IF \E k \in 0..9 : NatText[k + 1] = txt
  THEN CHOOSE k \in 0..9 : NatText[k + 1] = txt
  ELSE -1

\* The day a typed date denotes, 0 for a blank or a text that is no
\* YYYY-MM-DD date.
TypedDay(raw) ==
  CASE raw \in { "2024-01-02", " 2024-01-02 ", "2024-1-2" } -> 2
    [] raw = "2024-01-03" -> 3
    [] OTHER -> 0

\* The day a stored date text denotes, 0 for a blank or any other text.
StoredDay(txt) ==
  IF \E d \in 1..Len(DateText) : DateText[d] = txt
  THEN CHOOSE d \in 1..Len(DateText) : DateText[d] = txt
  ELSE 0

\* The answers that are y up to case and surrounding blanks.
YesAnswers == { "y", "Y", " y ", " Y", "y ", " y", "Y ", " Y " }

RECURSIVE SumCounts(_)
SumCounts(counts) ==
  IF counts = <<>> THEN 0 ELSE Head(counts).count + SumCounts(Tail(counts))

\* C1: a successful delete of display number i leaves, as list_all shows it,
\* the former sequence without its i-th record: one record fewer, the records
\* before i in place, the records after i one position down.
DeleteRemovesExactlyTheRecord ==
  (last.op = "delete" /\ last.outcome = "deleted") =>
    LET old == ListAll(before)
        new == ListAll(file)
        i == NumeralValue(last.args.index)
    IN /\ i \in 1..Len(old)
       /\ Len(new) = Len(old) - 1
       /\ \A k \in 1..Len(new) : new[k] = IF k < i THEN old[k] ELSE old[k + 1]

\* C1 witness: the middle one of three different records was deleted.
DeletedMiddleOfThree ==
  /\ last.op = "delete" /\ last.outcome = "deleted"
  /\ last.args.index = "2"
  /\ Len(before.rows) = 3
  /\ ListAll(before)[1] # ListAll(before)[2]
  /\ ListAll(before)[2] # ListAll(before)[3]
  /\ ListAll(before)[1] # ListAll(before)[3]

\* C2: a delete of the terminal program given a number below 1 or above the
\* number of records reports the invalid number and leaves the table as it
\* was; on a table without records it reports that and leaves the table too.
DeleteOutOfRangeLeavesStore ==
  (last.op = "delete" /\ last.args.app = "terminal") =>
    /\ (Len(before.rows) = 0) =>
         (last.outcome = "NoApplications" /\ file = before)
    /\ ( /\ last.args.asked
         /\ NumeralValue(last.args.index) # -1
         /\ \/ NumeralValue(last.args.index) < 1
            \/ NumeralValue(last.args.index) > Len(before.rows) ) =>
         (last.outcome = "InvalidNumber" /\ file = before)

\* C2 witness: the number just above the record count was typed on a table
\* with records.
DeleteJustAboveCount ==
  /\ last.op = "delete" /\ last.args.app = "terminal"
  /\ Len(before.rows) >= 2
  /\ NumeralValue(last.args.index) = Len(before.rows) + 1
  /\ last.outcome = "InvalidNumber"

\* C3: an add leaves the former records, as list_all shows them, unchanged and
\* in order, followed by one new record; its Date is the date typed, or the
\* day of the add when the answer is blank or no date; its Follow-up Date is
\* the date typed, or blank when the answer is blank or no date.
AddAppendsNormalizedRecord ==
  (last.op = "add") =>
    LET old == ListAll(before)
        new == ListAll(file)
        rec == file.rows[Len(file.rows)]
    IN /\ last.outcome = "added"
       /\ Len(new) = Len(old) + 1
       /\ SubSeq(new, 1, Len(old)) = old
       /\ (last.args.app = "terminal") =>
            /\ rec.Date = IF TypedDay(last.args.date) # 0
                          THEN DateText[TypedDay(last.args.date)]
                          ELSE DateText[last.args.today]
            /\ rec.FollowUp = IF TypedDay(last.args.follow_up) # 0
                              THEN DateText[TypedDay(last.args.follow_up)]
                              ELSE ""
       /\ (last.args.app = "web") =>
            /\ rec.Date = DateText[last.args.date.d]
            /\ rec.FollowUp = IF last.args.follow_up.t = "date"
                              THEN DateText[last.args.follow_up.d]
                              ELSE ""

\* C3 witness: on a table with records, on day 3, an add with a date and a
\* follow-up date that do not parse.
AddedWithUnparseableDates ==
  /\ last.op = "add" /\ last.args.app = "terminal"
  /\ Len(before.rows) >= 1
  /\ last.args.today = 3
  /\ last.args.date = "01/02/2024"
  /\ last.args.follow_up = "next week"
  /\ file.rows[Len(file.rows)].Date = "2024-01-03"
  /\ file.rows[Len(file.rows)].FollowUp = ""

\* C4: the pending follow-ups are exactly the records whose stored Follow-up
\* Date is a date on or before the day of the call, in table order, each the
\* record of the table at its position.
PendingAreExactlyTheDue ==
  (last.op = "follow_ups") =>
    LET due == { i \in 1..Len(file.rows) :
                   /\ StoredDay(file.rows[i].FollowUp) # 0
                   /\ StoredDay(file.rows[i].FollowUp) <= last.args.today }
        pending == last.out
    IN /\ Len(pending.rows) = Cardinality(due)
       /\ Len(pending.index) = Len(pending.rows)
       /\ \A k \in 1..Len(pending.rows) :
            /\ pending.index[k] + 1 \in due
            /\ k > 1 => pending.index[k - 1] < pending.index[k]
            /\ ToCsvRow(pending.rows[k]) = file.rows[pending.index[k] + 1]

\* C4 witness: on day 2 the table holds a blank follow-up, one of day 2 and
\* one of day 3, and exactly the one of day 2 is pending.
PendingBoundaryShown ==
  /\ last.op = "follow_ups" /\ last.args.today = 2
  /\ Len(file.rows) = 3
  /\ { file.rows[i].FollowUp : i \in 1..3 } = { "", "2024-01-02", "2024-01-03" }
  /\ Len(last.out.rows) = 1
  /\ ToCsvCell(last.out.rows[1].FollowUp) = "2024-01-02"

\* C5: the statistics on a table without records report the empty table and
\* no figures; no run of the statistics divides by a total of zero, and every
\* report is over a positive total.
StatsRefusesEmptyStore ==
  (last.op = "stats") =>
    /\ (Len(before.rows) = 0) =>
         (last.outcome = "EmptyStore" /\ last.out = NoReport)
    /\ last.outcome # "ZeroDivisionError"
    /\ (last.outcome = "report") => last.out.total > 0

\* C5 witness: the statistics of the terminal program ran on the table with
\* no record.
StatsOnEmptyStore ==
  /\ last.op = "stats" /\ last.args.app = "terminal"
  /\ before.exists /\ Len(before.rows) = 0
  /\ last.outcome = "EmptyStore"

\* C6: a report of the statistics gives the number of records as total and,
\* for each status as stored, the number of records that carry it, the counts
\* in descending order and summing to total.
StatsCountEveryRecord ==
  (last.op = "stats" /\ last.outcome = "report") =>
    LET counts == last.out.counts
    IN /\ last.out.total = Len(file.rows)
       /\ \A i \in 1..Len(file.rows) :
            \E k \in 1..Len(counts) :
              /\ counts[k].status = file.rows[i].Status
              /\ counts[k].count =
                   Cardinality({ j \in 1..Len(file.rows) :
                                   file.rows[j].Status = file.rows[i].Status })
       /\ \A k \in 1..(Len(counts) - 1) : counts[k].count >= counts[k + 1].count
       /\ SumCounts(counts) = last.out.total

\* C7: every record of the table, loaded and written again, is the record as
\* it was stored, field for field.
RoundTripLossless ==
  file.exists => \A i \in 1..Len(file.rows) :
                   ToCsvRow(ReadCsvRow(file.rows[i])) = file.rows[i]

\* C8: the initialization creates the table, empty under the eight column
\* names, when there is none, and leaves an existing table as it is; run
\* again on its result it changes nothing.
InitializeKeepsExistingTable ==
  (last.op = "initialize") =>
    /\ before.exists => file = before
    /\ ~before.exists =>
         (file.exists /\ file.rows = <<>> /\ file.header = COLUMNS
            /\ Len(file.header) = 8)
    /\ Initialize(file) = file

\* C8 witness: the web script was started on a table of three records.
InitializedOverThreeRecords ==
  /\ last.op = "initialize" /\ last.args.app = "web"
  /\ last.outcome = "exists"
  /\ Len(before.rows) = 3
  /\ Len(file.rows) = 3

\* C9: after the view, the pending follow-ups or the statistics the table
\* holds the records it held before, each field as stored.
ReadOnlyLeavesStore ==
  (last.op \in { "view", "follow_ups", "stats" }) =>
    /\ file.rows = before.rows
    /\ before.exists => file = before

\* C9 witness: the pending follow-ups were shown for some but not all of the
\* records, so the column was coerced and filtered in memory.
PendingShownForSome ==
  /\ last.op = "follow_ups" /\ last.outcome = "shown"
  /\ Len(last.out.rows) >= 1
  /\ Len(last.out.rows) < Len(file.rows)
  /\ last.out.rows[1].FollowUp.t = "ts"

\* C10 as stated: the terminal delete removes a record only when the number
\* is in range and the answer is 'y'.
DeleteOnlyOnLiteralY ==
  (last.op = "delete" /\ last.args.app = "terminal" /\ file # before) =>
    /\ NumeralValue(last.args.index) \in 1..Len(before.rows)
    /\ last.args.confirm = "y"

\* C10 amended: the terminal delete removes a record only when the number is
\* in range and the answer, trimmed and lower-cased, is 'y'; with a text that
\* is no number, or any other answer, the table stays as it was.
DeleteOnlyOnConfirmation ==
  (last.op = "delete" /\ last.args.app = "terminal") =>
    /\ (file # before) =>
         /\ NumeralValue(last.args.index) \in 1..Len(before.rows)
         /\ last.args.confirm \in YesAnswers
         /\ Len(file.rows) = Len(before.rows) - 1
    /\ (last.args.asked /\ NumeralValue(last.args.index) = -1) =>
         (file = before /\ last.outcome = "InvalidInput")
    /\ (last.args.confirm \notin YesAnswers) => file = before

\* C10 witness: a number in range was typed and the answer was n.
DeleteCancelled ==
  /\ last.op = "delete" /\ last.args.app = "terminal"
  /\ last.outcome = "cancelled"
  /\ last.args.confirm = "n"
  /\ NumeralValue(last.args.index) \in 1..Len(before.rows)
  /\ Len(before.rows) >= 2

(* ------------------------------------------------------- specifications *)

\* Text varies, dates fixed.
Next ==
  \/ TerminalStart
  \/ AddApplication(TextDateInputs, TextCompanyInputs, TextContactInputs,
                    TextStatusInputs, TextFollowUpInputs)
  \/ WebAddApplication(WebDateInputs, WebCompanyInputs, TextContactInputs,
                       WebTextStatusInputs, WebTextFollowUpInputs)
  \/ ViewApplications
  \/ FollowUpsPending
  \/ WebFollowUpsPending
  \/ DeleteApplication
  \/ WebViewApplications
  \/ ApplicationStats
  \/ WebApplicationStats
  \/ WebHome
  \/ Tick

Spec == Init /\ [][Next]_vars

\* Dates vary, text fixed.
NextDates ==
  \/ TerminalStart
  \/ AddApplication(DateInputs, DateCompanyInputs, DateContactInputs,
                    DateStatusInputs, FollowUpInputs)
  \/ WebAddApplication(WebDateInputs, WebCompanyInputs, DateContactInputs,
                       WebDateStatusInputs, WebFollowUpInputs)
  \/ ViewApplications
  \/ FollowUpsPending
  \/ WebFollowUpsPending
  \/ DeleteApplication
  \/ WebViewApplications
  \/ ApplicationStats
  \/ WebApplicationStats
  \/ WebHome
  \/ Tick

SpecDates == Init /\ [][NextDates]_vars

====
